---- MODULE Spec2Model ----
(***************************************************************************)
(* Vending machine state-machine core of                                   *)
(* vending_machine_version_6_final/vending_machine_version_6_fixed.py:     *)
(* the Money ledger, the Coins / Products catalogs, the VendingMachine     *)
(* controller with its four State classes, and the main event loop that    *)
(* feeds one event per update() call.                                      *)
(*                                                                         *)
(* A VendingMachine object is a record m; every method is an operator      *)
(* from records to records, so that one update() call, with every nested   *)
(* call it makes, is one atomic action.                                    *)
(***************************************************************************)
EXTENDS Integers, Sequences, FiniteSets, TLC

VARIABLES
    state,                      \* machine.state.name
    event,                      \* machine.event
    amount,                     \* machine.money.amount
    change_due,                 \* machine.change_due
    coins,                      \* machine.coins.denominations: key -> <<name, value>>
    coin_values,                \* machine.coin_values (cached Coins.get_values())
    display,                    \* text of window['amount_display']
    last_update_message_shown,  \* machine.last_update_message_shown
    out,                        \* actuator calls and prints of the last update() call
    call,                       \* last call made on a bare Money object (SpecMoney)
    inserted,                   \* coins inserted so far, per key (SpecCoinsOnly)
    loop,                       \* position inside CountChangeState.update (SpecLoop)
    threads,                    \* frames of the two threads that call update() (SpecButton)
    client,                     \* the ClientThread of ClientTH.py main refers to (SpecClient, SpecSession)
    server,                     \* ServerTH.py: messages received, event queue, LED (SpecServer)
    connection                  \* ClientTH.py: position and locals of establish_connection (SpecConnection)

vars == <<state, event, amount, change_due, coins, coin_values, display,
          last_update_message_shown, out, call, inserted, loop, threads, client,
          server, connection>>

(***************************************************************************)
(* Bounds of the model.                                                    *)
(***************************************************************************)
\* coins are accepted by the environment only while the balance stays <= MaxBalance
MaxBalance == 300
\* largest owed amount drawn when the change return is entered directly
MaxOwed == 330
\* largest owed amount drawn for the stepwise change loop
MaxLoopOwed == 12
\* the balance up to which coins are inserted while the button thread runs
MaxRaceBalance == 10
\* events the main loop handles while the button thread runs
MaxRaceEvents == 3
\* button presses in a run with the button thread
MaxPresses == 1
\* connections the server accepts in a run
MaxMessages == 4
\* largest amount held and largest argument passed to a bare Money object
MaxMoney == 12

\* Python's None
None == <<>>

(***************************************************************************)
(* Catalogs: setup_coins, setup_products.                                  *)
(***************************************************************************)
setup_coins ==
    ( "5"   :> <<"5c", 5>>   @@
      "10"  :> <<"10c", 10>> @@
      "25"  :> <<"25c", 25>> @@
      "100" :> <<"$1", 100>> @@
      "200" :> <<"$2", 200>> )

setup_products ==
    ( "surprise" :> <<"SURPRISE", 5>>   @@
      "chips"    :> <<"CHIPS", 50>>     @@
      "candy"    :> <<"CANDY", 75>>     @@
      "soda"     :> <<"SODA", 100>>     @@
      "gum"      :> <<"GUM", 25>>       @@
      "cookies"  :> <<"COOKIES", 85>>   @@
      "water"    :> <<"WATER", 95>>     @@
      "juice"    :> <<"JUICE", 125>>    @@
      "crackers" :> <<"CRACKERS", 60>>  @@
      "nuts"     :> <<"NUTS", 150>> )

\* machine.products.items: the program never changes it after setup_products()
products == setup_products

(***************************************************************************)
(* class Money: the object is its amount.                                  *)
(***************************************************************************)
\* self.amount -= value written in add
Money_add_negated(a, value) == a - value

Money_add(a, value) == a + value

\* subtract without the value <= self.amount test
Money_subtract_unguarded(a, value) == [amount |-> a - value, ret |-> TRUE]

\* returns the new amount and the method's return value
Money_subtract(a, value) ==
    IF value <= a THEN [amount |-> a - value, ret |-> TRUE]
                  ELSE [amount |-> a, ret |-> FALSE]

Money_get_amount(a) == a

\* self.amount = 0 left out of clear
Money_clear_keeps(a) == [amount |-> a, ret |-> None]

\* the method has no return statement: it returns None
Money_clear(a) == [amount |-> 0, ret |-> None]

\* f"${amount / 100:.2f}" as <<dollars, cents>>
Money_get_formatted(a) == <<a \div 100, a % 100>>

(***************************************************************************)
(* class Coins / class Products, on the dictionary c.                      *)
(***************************************************************************)
Coins_get_coin(c, key) == IF key \in DOMAIN c THEN c[key] ELSE None

Coins_coin_exists(c, key) == key \in DOMAIN c

Products_get_product(p, key) == IF key \in DOMAIN p THEN p[key] ELSE None

Products_product_exists(p, key) == key \in DOMAIN p

\* sorted(values, reverse=True) by repeated selection of a largest entry
RECURSIVE SortedReverse(_, _)
SortedReverse(c, keys) ==
    IF keys = {} THEN <<>>
    ELSE LET k == CHOOSE x \in keys : \A y \in keys : c[x][2] >= c[y][2]
         IN  <<c[k][2]>> \o SortedReverse(c, keys \ {k})

\* sorted(values) with reverse=True left out
RECURSIVE SortedAscending(_, _)
SortedAscending(c, keys) ==
    IF keys = {} THEN <<>>
    ELSE LET k == CHOOSE x \in keys : \A y \in keys : c[x][2] <= c[y][2]
         IN  <<c[k][2]>> \o SortedAscending(c, keys \ {k})

Coins_get_values_ascending(c) == SortedAscending(c, DOMAIN c)

\* sorted(set(values), reverse=True): equal face values are merged
Coins_get_values_distinct(c) ==
    LET values == {c[k][2] : k \in DOMAIN c}
    IN  SortedReverse([v \in values |-> <<"value", v>>], values)

Coins_get_values(c) == SortedReverse(c, DOMAIN c)

(***************************************************************************)
(* class VendingMachine and the State classes.                             *)
(***************************************************************************)
\* out records, in order, what an update() call does to the outside: the
\* actuator calls, the messages printed for the user, and the value returned by
\* Money.subtract (which the caller drops)
Emit(m, what) == [m EXCEPT !.out = Append(@, what)]

\* self.money.amount = coin_value instead of self.money.add(coin_value)
VendingMachine_add_coin_assigns(m, coin_key) ==
    LET coin_info == Coins_get_coin(m.coins, coin_key)
    IN  IF coin_info # None
        THEN [m EXCEPT !.amount = coin_info[2],
                       !.last_update_message_shown = FALSE]
        ELSE m

VendingMachine_add_coin(m, coin_key) ==
    LET coin_info == Coins_get_coin(m.coins, coin_key)
    IN  IF coin_info # None
        THEN [m EXCEPT !.amount = Money_add(@, coin_info[2]),
                       !.last_update_message_shown = FALSE]
        ELSE m

\* the servo sequence, or its simulation: one product release either way
VendingMachine_dispense_product(m) == Emit(m, <<"dispense_product", m.event>>)

\* hardware and GUI LED blink blink_count times and end switched off
VendingMachine_blink_change_led(m, blink_count) ==
    Emit(m, <<"blink_change_led", blink_count>>)

\* the window is present and its element takes the new text (the try succeeds)
VendingMachine_update_display(m) ==
    [m EXCEPT !.display = <<"Current Amount: ", Money_get_formatted(m.amount)>>,
              !.last_update_message_shown = TRUE]

RECURSIVE go_to_state(_, _)

\* goes back to waiting, not add_coins, once the ledger is empty
DeliverProductState_on_entry_resets(m) ==
    LET product       == Products_get_product(products, m.event)
        product_price == product[2]
        r  == Money_subtract(m.amount, product_price)
        m1 == Emit([m EXCEPT !.amount = r.amount], <<"subtract", r.ret>>)
        m2 == VendingMachine_dispense_product(m1)
    IN  go_to_state(m2, IF m2.amount = 0 THEN "waiting" ELSE "add_coins")

\* the machine goes to waiting after every delivery, whatever balance is left
DeliverProductState_on_entry_to_waiting(m) ==
    LET product == Products_get_product(products, m.event)
    IN  IF product = None
        THEN Emit(m, <<"raise", "TypeError">>)
        ELSE LET r  == Money_subtract(m.amount, product[2])
                 m1 == Emit([m EXCEPT !.amount = r.amount], <<"subtract", r.ret>>)
             IN  go_to_state(VendingMachine_dispense_product(m1), "waiting")

\* the closing machine.go_to_state('add_coins') left out
DeliverProductState_on_entry_stays(m) ==
    LET product == Products_get_product(products, m.event)
    IN  IF product = None
        THEN Emit(m, <<"raise", "TypeError">>)
        ELSE LET r  == Money_subtract(m.amount, product[2])
                 m1 == Emit([m EXCEPT !.amount = r.amount], <<"subtract", r.ret>>)
             IN  VendingMachine_dispense_product(m1)

\* product[0] on None raises TypeError, which nothing in update() catches
DeliverProductState_on_entry(m) ==
    LET product == Products_get_product(products, m.event)
    IN  IF product = None
        THEN Emit(m, <<"raise", "TypeError">>)
        ELSE LET product_price == product[2]
                 r  == Money_subtract(m.amount, product_price)
                 m1 == Emit([m EXCEPT !.amount = r.amount], <<"subtract", r.ret>>)
                 m2 == VendingMachine_dispense_product(m1)
             IN  go_to_state(m2, "add_coins")

\* machine.blink_change_led(blink_count=3) left out
CountChangeState_on_entry_no_blink(m) == m

CountChangeState_on_entry(m) == VendingMachine_blink_change_led(m, 3)

\* on_exit is State.on_exit (pass) for every state
go_to_state(m, state_name) ==
    LET m1 == [m EXCEPT !.state = state_name]
    IN  CASE state_name = "deliver_product" -> DeliverProductState_on_entry(m1)
          [] state_name = "count_change"    -> CountChangeState_on_entry(m1)
          [] OTHER                          -> m1

\* credits the coin and forgets go_to_state('add_coins')
WaitingState_update_stays(m) ==
    IF Coins_coin_exists(m.coins, m.event)
    THEN VendingMachine_add_coin(m, m.event)
    ELSE IF Products_product_exists(products, m.event)
    THEN Emit(m, <<"print", "Please insert coins first">>)
    ELSE IF m.event = "RETURN"
    THEN Emit(m, <<"print", "No money to return">>)
    ELSE m

\* a product event is handed to deliver_product without looking at the balance
WaitingState_update_delivers(m) ==
    IF Coins_coin_exists(m.coins, m.event)
    THEN go_to_state(VendingMachine_add_coin(m, m.event), "add_coins")
    ELSE IF Products_product_exists(products, m.event)
    THEN go_to_state(m, "deliver_product")
    ELSE IF m.event = "RETURN"
    THEN Emit(m, <<"print", "No money to return">>)
    ELSE m

\* RETURN starts a change return from waiting as it does from add_coins
WaitingState_update_returns(m) ==
    IF Coins_coin_exists(m.coins, m.event)
    THEN go_to_state(VendingMachine_add_coin(m, m.event), "add_coins")
    ELSE IF Products_product_exists(products, m.event)
    THEN Emit(m, <<"print", "Please insert coins first">>)
    ELSE IF m.event = "RETURN"
    THEN go_to_state([m EXCEPT !.change_due = Money_get_amount(m.amount),
                               !.amount = Money_clear(m.amount).amount],
                     "count_change")
    ELSE m

WaitingState_update(m) ==
    IF Coins_coin_exists(m.coins, m.event)
    THEN go_to_state(VendingMachine_add_coin(m, m.event), "add_coins")
    ELSE IF Products_product_exists(products, m.event)
    THEN Emit(m, <<"print", "Please insert coins first">>)
    ELSE IF m.event = "RETURN"
    THEN Emit(m, <<"print", "No money to return">>)
    ELSE m

\* machine.money.clear() left out of the RETURN branch
AddCoinsState_update_no_clear(m) ==
    IF m.event = "RETURN"
    THEN go_to_state([m EXCEPT !.change_due = Money_get_amount(m.amount)], "count_change")
    ELSE IF Coins_coin_exists(m.coins, m.event)
    THEN VendingMachine_add_coin(m, m.event)
    ELSE IF Products_product_exists(products, m.event)
    THEN IF Money_get_amount(m.amount) >= Products_get_product(products, m.event)[2]
         THEN go_to_state(m, "deliver_product")
         ELSE Emit(m, <<"print", "Insufficient funds">>)
    ELSE m

\* the RETURN branch written as the final else: every other event returns the money
AddCoinsState_update_else_return(m) ==
    IF Coins_coin_exists(m.coins, m.event)
    THEN VendingMachine_add_coin(m, m.event)
    ELSE IF Products_product_exists(products, m.event)
    THEN IF Money_get_amount(m.amount) >= Products_get_product(products, m.event)[2]
         THEN go_to_state(m, "deliver_product")
         ELSE Emit(m, <<"print", "Insufficient funds">>)
    ELSE go_to_state([m EXCEPT !.change_due = Money_get_amount(m.amount),
                               !.amount = Money_clear(m.amount).amount],
                     "count_change")

\* the balance is not compared with the price
AddCoinsState_update_no_check(m) ==
    IF m.event = "RETURN"
    THEN go_to_state([m EXCEPT !.change_due = Money_get_amount(m.amount),
                               !.amount = Money_clear(m.amount).amount],
                     "count_change")
    ELSE IF Coins_coin_exists(m.coins, m.event)
    THEN VendingMachine_add_coin(m, m.event)
    ELSE IF Products_product_exists(products, m.event)
    THEN go_to_state(m, "deliver_product")
    ELSE m

\* the balance is compared with 0 where the price was meant
AddCoinsState_update_checks_positive(m) ==
    IF m.event = "RETURN"
    THEN go_to_state([m EXCEPT !.change_due = Money_get_amount(m.amount),
                               !.amount = Money_clear(m.amount).amount],
                     "count_change")
    ELSE IF Coins_coin_exists(m.coins, m.event)
    THEN VendingMachine_add_coin(m, m.event)
    ELSE IF Products_product_exists(products, m.event)
    THEN IF Money_get_amount(m.amount) > 0
         THEN go_to_state(m, "deliver_product")
         ELSE Emit(m, <<"print", "Insufficient funds">>)
    ELSE m

\* machine.money.clear() placed before the balance is captured
AddCoinsState_update_clear_first(m) ==
    IF m.event = "RETURN"
    THEN LET m1 == [m EXCEPT !.amount = Money_clear(m.amount).amount]
             m2 == [m1 EXCEPT !.change_due = Money_get_amount(m1.amount)]
         IN  go_to_state(m2, "count_change")
    ELSE IF Coins_coin_exists(m.coins, m.event)
    THEN VendingMachine_add_coin(m, m.event)
    ELSE IF Products_product_exists(products, m.event)
    THEN IF Money_get_amount(m.amount) >= Products_get_product(products, m.event)[2]
         THEN go_to_state(m, "deliver_product")
         ELSE Emit(m, <<"print", "Insufficient funds">>)
    ELSE m

\* the product_exists test is dropped: whatever is neither RETURN nor a coin is
\* looked up as a product, and product[1] on None raises TypeError
AddCoinsState_update_any_product(m) ==
    IF m.event = "RETURN"
    THEN go_to_state([m EXCEPT !.change_due = Money_get_amount(m.amount),
                               !.amount = Money_clear(m.amount).amount],
                     "count_change")
    ELSE IF Coins_coin_exists(m.coins, m.event)
    THEN VendingMachine_add_coin(m, m.event)
    ELSE LET product == Products_get_product(products, m.event)
         IN  IF product = None
             THEN Emit(m, <<"raise", "TypeError">>)
             ELSE IF Money_get_amount(m.amount) >= product[2]
             THEN go_to_state(m, "deliver_product")
             ELSE Emit(m, <<"print", "Insufficient funds">>)

AddCoinsState_update(m) ==
    IF m.event = "RETURN"
    THEN LET m1 == [m EXCEPT !.change_due = Money_get_amount(m.amount)]
             m2 == [m1 EXCEPT !.amount = Money_clear(m1.amount).amount]
         IN  go_to_state(m2, "count_change")
    ELSE IF Coins_coin_exists(m.coins, m.event)
    THEN VendingMachine_add_coin(m, m.event)
    ELSE IF Products_product_exists(products, m.event)
    THEN LET product         == Products_get_product(products, m.event)
             product_price   == product[2]
             current_balance == Money_get_amount(m.amount)
         IN  IF current_balance >= product_price
             THEN go_to_state(m, "deliver_product")
             ELSE Emit(m, <<"print", "Insufficient funds">>)
    ELSE m

(***************************************************************************)
(* CountChangeState.update, one control point at a time.  A loop           *)
(* configuration is [m, i, pc]: i is the index of the for loop into        *)
(* m.coin_values, pc is "for" (fetch the next coin_value), "while" (test   *)
(* of the inner loop), "if" (the test after the loops) or "done".          *)
(***************************************************************************)
LoopStart(m) == [m |-> m, i |-> 1, pc |-> "for"]

\* the LED is pulsed twice for one coin
PulseChangeLed_twice(m) == Emit(Emit(m, <<"led_pulse", 1>>), <<"led_pulse", 1>>)

\* the change LED (hardware and GUI) is switched on and off once
PulseChangeLed(m) == Emit(m, <<"led_pulse", 1>>)

\* the body of the while loop does nothing: change_due is never lowered
LoopStep_body_skipped(L) ==
    CASE L.pc = "for" ->
            IF L.i <= Len(L.m.coin_values)
            THEN [L EXCEPT !.pc = "while"]
            ELSE [L EXCEPT !.pc = "if"]
      [] L.pc = "while" ->
            IF L.m.change_due >= L.m.coin_values[L.i]
            THEN L
            ELSE [L EXCEPT !.i = @ + 1, !.pc = "for"]
      [] L.pc = "if" ->
            IF L.m.change_due = 0
            THEN [L EXCEPT !.m = go_to_state(L.m, "waiting"), !.pc = "done"]
            ELSE [L EXCEPT !.pc = "done"]
      [] OTHER -> L

\* while machine.change_due > coin_value: a coin equal to what is owed is not paid
LoopStep_strict(L) ==
    CASE L.pc = "for" ->
            IF L.i <= Len(L.m.coin_values)
            THEN [L EXCEPT !.pc = "while"]
            ELSE [L EXCEPT !.pc = "if"]
      [] L.pc = "while" ->
            LET coin_value == L.m.coin_values[L.i]
            IN  IF L.m.change_due > coin_value
                THEN [L EXCEPT !.m = PulseChangeLed(
                                         Emit([L.m EXCEPT !.change_due = @ - coin_value],
                                              <<"return_coin", coin_value>>))]
                ELSE [L EXCEPT !.i = @ + 1, !.pc = "for"]
      [] L.pc = "if" ->
            IF L.m.change_due = 0
            THEN [L EXCEPT !.m = go_to_state(L.m, "waiting"), !.pc = "done"]
            ELSE [L EXCEPT !.pc = "done"]
      [] OTHER -> L

\* the for loop leaves out the last, smallest, denomination
LoopStep_skips_last(L) ==
    CASE L.pc = "for" ->
            IF L.i < Len(L.m.coin_values)
            THEN [L EXCEPT !.pc = "while"]
            ELSE [L EXCEPT !.pc = "if"]
      [] L.pc = "while" ->
            LET coin_value == L.m.coin_values[L.i]
            IN  IF L.m.change_due >= coin_value
                THEN [L EXCEPT !.m = PulseChangeLed(
                                         Emit([L.m EXCEPT !.change_due = @ - coin_value],
                                              <<"return_coin", coin_value>>))]
                ELSE [L EXCEPT !.i = @ + 1, !.pc = "for"]
      [] L.pc = "if" ->
            IF L.m.change_due = 0
            THEN [L EXCEPT !.m = go_to_state(L.m, "waiting"), !.pc = "done"]
            ELSE [L EXCEPT !.pc = "done"]
      [] OTHER -> L

LoopStep(L) ==
    CASE L.pc = "for" ->
            IF L.i <= Len(L.m.coin_values)
            THEN [L EXCEPT !.pc = "while"]
            ELSE [L EXCEPT !.pc = "if"]
      [] L.pc = "while" ->
            LET coin_value == L.m.coin_values[L.i]
            IN  IF L.m.change_due >= coin_value
                THEN [L EXCEPT !.m = PulseChangeLed(
                                         Emit([L.m EXCEPT !.change_due = @ - coin_value],
                                              <<"return_coin", coin_value>>))]
                ELSE [L EXCEPT !.i = @ + 1, !.pc = "for"]
      [] L.pc = "if" ->
            IF L.m.change_due = 0
            THEN [L EXCEPT !.m = go_to_state(L.m, "waiting"), !.pc = "done"]
            ELSE [L EXCEPT !.pc = "done"]
      [] OTHER -> L

RECURSIVE LoopRun(_)
LoopRun(L) == IF L.pc = "done" THEN L ELSE LoopRun(LoopStep(L))

\* the final go_to_state('waiting') is never taken
CountChangeState_update_stays(m) ==
    [LoopRun(LoopStart(m)).m EXCEPT !.state = "count_change"]

CountChangeState_update(m) == LoopRun(LoopStart(m)).m

\* self.state.update(self), dispatched on the class of the current state
State_update(m) ==
    CASE m.state = "waiting"      -> WaitingState_update(m)
      [] m.state = "add_coins"    -> AddCoinsState_update(m)
      [] m.state = "count_change" -> CountChangeState_update(m)
      [] OTHER                    -> m

\* an exception has left update() through the current call
Raised(o) == \E n \in 1..Len(o) : o[n][1] = "raise"

\* self.update_display() called before self.state.update(self)
VendingMachine_update_display_first(m) == State_update(VendingMachine_update_display(m))

\* an exception raised in self.state.update(self) skips self.update_display()
VendingMachine_update(m) ==
    LET m1 == State_update(m)
    IN  IF Raised(m1.out) THEN m1 ELSE VendingMachine_update_display(m1)

(***************************************************************************)
(* The machine of the running program.                                     *)
(***************************************************************************)
Machine ==
    [state |-> state, event |-> event, amount |-> amount, change_due |-> change_due,
     coins |-> coins, coin_values |-> coin_values, display |-> display,
     last_update_message_shown |-> last_update_message_shown, out |-> out]

SetMachine(m) ==
    /\ state' = m.state
    /\ event' = m.event
    /\ amount' = m.amount
    /\ change_due' = m.change_due
    /\ coins' = m.coins
    /\ coin_values' = m.coin_values
    /\ display' = m.display
    /\ last_update_message_shown' = m.last_update_message_shown
    /\ out' = m.out

\* VendingMachine.__init__ followed by go_to_state('waiting')
NewMachine(c) ==
    go_to_state([state |-> None, event |-> "", amount |-> 0, change_due |-> 0,
                 coins |-> c, coin_values |-> Coins_get_values(c),
                 display |-> <<"Current Amount: ", <<0, 0>>>>,
                 last_update_message_shown |-> FALSE, out |-> <<>>],
                "waiting")

NoCall == [op |-> "none", arg |-> 0, ret |-> None]

NoInserted == [k \in DOMAIN setup_coins |-> 0]

Idle == [i |-> 0, pc |-> "idle"]

\* the locals of an update() call in progress: where it is (pc), the index of
\* the for loop (i), the product or coin looked up and its price or value, the
\* value loaded by a read-modify-write (tmp), where add_coin returns to (next)
NoFrame == [pc |-> "idle", i |-> 0, product |-> "", price |-> 0, tmp |-> 0, next |-> ""]

\* ClientTH.py: no ClientThread has been created
NoClient == [pc |-> "none", running |-> FALSE, iteration |-> 0,
             completed_iterations |-> 0, sent |-> 0, status |-> 0, posted |-> <<>>,
             main |-> "loop", abandoned |-> 0, started |-> 0]

\* ServerTH.py: nothing received, no event waiting, LED off
NoServer == [queue |-> <<>>, led_state |-> FALSE, received |-> 0, valid |-> 0,
             toggles |-> 0]

\* ClientTH.py: establish_connection has not been called
NoConnection == [pc |-> "none", current_ip |-> None, choice |-> "none",
                 input |-> None, attempts |-> 0, ret |-> None]

\* main loop and button callback both outside update(); no event handled and
\* no press made so far
NoThreads == [main |-> NoFrame, button |-> NoFrame, events |-> 0, presses |-> 0]

InitOf(m) ==
    /\ state = m.state
    /\ event = m.event
    /\ amount = m.amount
    /\ change_due = m.change_due
    /\ coins = m.coins
    /\ coin_values = m.coin_values
    /\ display = m.display
    /\ last_update_message_shown = m.last_update_message_shown
    /\ out = m.out

Init ==
    /\ InitOf(NewMachine(setup_coins))
    /\ call = NoCall
    /\ inserted = NoInserted
    /\ loop = Idle
    /\ threads = NoThreads
    /\ client = NoClient
    /\ server = NoServer
    /\ connection = NoConnection

\* one pass of the main loop with a non-closing event:
\* vending.event = event; vending.update()
\* (an exception that left update() has ended the loop and the process)
Update(e) ==
    /\ ~Raised(out)
    /\ SetMachine(VendingMachine_update([Machine EXCEPT !.event = e, !.out = <<>>]))

CoinKeys == DOMAIN coins

ProductKeys == DOMAIN products

\* window.read(timeout=10) times out, or update() is handed a token it does not know
UnknownEvents == {"__TIMEOUT__", "unknown"}

\* the environment stops inserting coins once the balance would pass MaxBalance
CoinAccepted(k) ==
    state \in {"waiting", "add_coins"} => amount + coins[k][2] <= MaxBalance

CoinEvent ==
    \E k \in CoinKeys :
        /\ CoinAccepted(k)
        /\ Update(k)
        /\ UNCHANGED <<call, inserted, loop, threads, client, server, connection>>

ProductEvent ==
    \E k \in ProductKeys :
        /\ Update(k)
        /\ UNCHANGED <<call, inserted, loop, threads, client, server, connection>>

ReturnEvent ==
    /\ Update("RETURN")
    /\ UNCHANGED <<call, inserted, loop, threads, client, server, connection>>

UnknownEvent ==
    \E e \in UnknownEvents :
        /\ Update(e)
        /\ UNCHANGED <<call, inserted, loop, threads, client, server, connection>>

\* the physical return button: self.event = 'RETURN'; self.update()
button_action ==
    /\ Update("RETURN")
    /\ UNCHANGED <<call, inserted, loop, threads, client, server, connection>>

Next ==
    \/ CoinEvent
    \/ ProductEvent
    \/ ReturnEvent
    \/ UnknownEvent
    \/ button_action

Spec == Init /\ [][Next]_vars

\* window.read(timeout=10) returns '__TIMEOUT__' when nothing else happens, so
\* the main loop keeps calling update().  An UnknownEvent step is possible in
\* every state of Spec, so this is weak fairness of UnknownEvent, written
\* without ENABLED.
SpecFair == Spec /\ []<><<UnknownEvent>>_vars

(***************************************************************************)
(* The change return entered with a drawn amount: the machine holds a      *)
(* balance of owed cents in add_coins and has just handled RETURN.  From   *)
(* there on it is driven by the same events as the running program.        *)
(***************************************************************************)
InitChange ==
    /\ \E owed \in 0..MaxOwed :
          InitOf(VendingMachine_update(
                     [NewMachine(setup_coins) EXCEPT !.state = "add_coins",
                                                     !.amount = owed,
                                                     !.event = "RETURN"]))
    /\ call = NoCall
    /\ inserted = NoInserted
    /\ loop = Idle
    /\ threads = NoThreads
    /\ client = NoClient
    /\ server = NoServer
    /\ connection = NoConnection

SpecChange == InitChange /\ [][Next]_vars

(***************************************************************************)
(* CountChangeState.update step by step, for a drawn amount owed and a     *)
(* drawn coin catalog (any values per key, equal values included).         *)
(***************************************************************************)
GenericKeys == {"a", "b", "c"}

DenomValues == {2, 3, 5}

Catalogs ==
    {setup_coins} \cup
    UNION {[S -> {<<"coin", v>> : v \in DenomValues}] : S \in SUBSET GenericKeys}

InitLoop ==
    /\ \E c \in Catalogs, owed \in 0..MaxLoopOwed :
          InitOf([NewMachine(c) EXCEPT !.state = "count_change",
                                       !.change_due = owed,
                                       !.event = "__TIMEOUT__"])
    /\ call = NoCall
    /\ inserted = NoInserted
    /\ loop = [i |-> 1, pc |-> "for"]
    /\ threads = NoThreads
    /\ client = NoClient
    /\ server = NoServer
    /\ connection = NoConnection

TakeLoopStep ==
    /\ LET L == LoopStep([m |-> Machine, i |-> loop.i, pc |-> loop.pc])
       IN  /\ SetMachine(L.m)
           /\ loop' = [i |-> L.i, pc |-> L.pc]
    /\ UNCHANGED <<call, inserted, threads, client, server, connection>>

\* for coin_value in machine.coin_values
ForStep ==
    /\ loop.pc = "for"
    /\ TakeLoopStep

\* while machine.change_due >= coin_value, and its body
WhileStep ==
    /\ loop.pc = "while"
    /\ TakeLoopStep

\* if machine.change_due == 0: machine.go_to_state('waiting')
IfStep ==
    /\ loop.pc = "if"
    /\ TakeLoopStep

\* back in VendingMachine.update: self.update_display()
DisplayStep ==
    /\ loop.pc = "done"
    /\ SetMachine(VendingMachine_update_display(Machine))
    /\ loop' = [loop EXCEPT !.pc = "returned"]
    /\ UNCHANGED <<call, inserted, threads, client, server, connection>>

NextLoop == ForStep \/ WhileStep \/ IfStep \/ DisplayStep

SpecLoop == InitLoop /\ [][NextLoop]_vars

\* the interpreter keeps executing the one thread that runs update()
SpecLoopFair == SpecLoop /\ WF_vars(NextLoop)

(***************************************************************************)
(* A Money object on its own: any sequence of calls of its methods.        *)
(***************************************************************************)
MoneyAdd ==
    \E value \in 0..MaxMoney :
        /\ amount + value <= MaxMoney
        /\ amount' = Money_add(amount, value)
        /\ call' = [op |-> "add", arg |-> value, ret |-> None]
        /\ UNCHANGED <<state, event, change_due, coins, coin_values, display,
                       last_update_message_shown, out, inserted, loop, threads, client, server, connection>>

MoneySubtract ==
    \E value \in 0..MaxMoney :
        /\ amount' = Money_subtract(amount, value).amount
        /\ call' = [op |-> "subtract", arg |-> value,
                    ret |-> Money_subtract(amount, value).ret]
        /\ UNCHANGED <<state, event, change_due, coins, coin_values, display,
                       last_update_message_shown, out, inserted, loop, threads, client, server, connection>>

MoneyClear ==
    /\ amount' = Money_clear(amount).amount
    /\ call' = [op |-> "clear", arg |-> 0, ret |-> Money_clear(amount).ret]
    /\ UNCHANGED <<state, event, change_due, coins, coin_values, display,
                   last_update_message_shown, out, inserted, loop, threads, client, server, connection>>

MoneyGetAmount ==
    /\ call' = [op |-> "get_amount", arg |-> 0, ret |-> Money_get_amount(amount)]
    /\ UNCHANGED <<state, event, amount, change_due, coins, coin_values, display,
                   last_update_message_shown, out, inserted, loop, threads, client, server, connection>>

NextMoney == MoneyAdd \/ MoneySubtract \/ MoneyClear \/ MoneyGetAmount

SpecMoney == Init /\ [][NextMoney]_vars

(***************************************************************************)
(* A fresh machine that is fed coin events only; inserted counts them.     *)
(***************************************************************************)
InsertCoin ==
    \E k \in CoinKeys :
        /\ CoinAccepted(k)
        /\ Update(k)
        /\ inserted' = [inserted EXCEPT ![k] = @ + 1]
        /\ UNCHANGED <<call, loop, threads, client, server, connection>>

SpecCoinsOnly == Init /\ [][InsertCoin]_vars

(***************************************************************************)
(* The program on the Raspberry Pi: besides the main loop, the gpiozero    *)
(* Button runs vending.button_action in its own thread whenever the        *)
(* button is pressed (return_button.when_pressed = vending.button_action). *)
(* Nothing locks the machine, so the two update() calls interleave at      *)
(* every access to it.  A thread is a frame f; Goto, Step and the          *)
(* operators below take the machine m and the frame of the running thread  *)
(* to the pair [m, f] after one access.                                    *)
(***************************************************************************)
Goto(m, f, pc) == [m |-> m, f |-> [f EXCEPT !.pc = pc]]

\* an exception leaves update(): the frame is gone
Raise(m, f, what) == [m |-> Emit(m, <<"raise", what>>), f |-> [NoFrame EXCEPT !.pc = "raised"]]

\* VendingMachine.update: if self.state: self.state.update(self)
StepUpdate(m, f) ==
    CASE m.state = "waiting"      -> Goto(m, f, "w1")
      [] m.state = "add_coins"    -> Goto(m, f, "a1")
      [] m.state = "count_change" -> Goto(m, [f EXCEPT !.i = 1], "c_for")
      [] OTHER                    -> Goto(m, f, "display")

\* machine.add_coin(machine.event) and Money.add: self.amount += amount is a
\* load followed by a store
StepAddCoin(m, f) ==
    CASE f.pc = "add" ->
            LET coin_info == Coins_get_coin(m.coins, m.event)
            IN  IF coin_info # None
                THEN Goto(m, [f EXCEPT !.price = coin_info[2]], "add_r")
                ELSE Goto(m, f, f.next)
      [] f.pc = "add_r" -> Goto(m, [f EXCEPT !.tmp = m.amount], "add_w")
      [] OTHER ->
            Goto([m EXCEPT !.amount = f.tmp + f.price,
                           !.last_update_message_shown = FALSE],
                 f, f.next)

\* WaitingState.update
StepWaiting(m, f) ==
    CASE f.pc = "w1" ->
            IF Coins_coin_exists(m.coins, m.event)
            THEN Goto(m, [f EXCEPT !.next = "w_goto"], "add")
            ELSE Goto(m, f, "w2")
      [] f.pc = "w_goto" -> Goto([m EXCEPT !.state = "add_coins"], f, "display")
      [] f.pc = "w2" ->
            IF Products_product_exists(products, m.event)
            THEN Goto(Emit(m, <<"print", "Please insert coins first">>), f, "display")
            ELSE Goto(m, f, "w3")
      [] OTHER ->
            IF m.event = "RETURN"
            THEN Goto(Emit(m, <<"print", "No money to return">>), f, "display")
            ELSE Goto(m, f, "display")

\* AddCoinsState.update
StepAddCoins(m, f) ==
    CASE f.pc = "a1" ->
            IF m.event = "RETURN" THEN Goto(m, f, "a_r1") ELSE Goto(m, f, "a2")
      [] f.pc = "a_r1" ->
            Goto([m EXCEPT !.change_due = Money_get_amount(m.amount)], f, "a_r2")
      [] f.pc = "a_r2" ->
            Goto([m EXCEPT !.amount = Money_clear(m.amount).amount], f, "a_r3")
      [] f.pc = "a_r3" -> Goto([m EXCEPT !.state = "count_change"], f, "a_r4")
      [] f.pc = "a_r4" -> Goto(CountChangeState_on_entry(m), f, "display")
      [] f.pc = "a2" ->
            IF Coins_coin_exists(m.coins, m.event)
            THEN Goto(m, [f EXCEPT !.next = "display"], "add")
            ELSE Goto(m, f, "a3")
      [] f.pc = "a3" ->
            IF Products_product_exists(products, m.event)
            THEN Goto(m, f, "a_p1")
            ELSE Goto(m, f, "display")
      [] f.pc = "a_p1" ->
            LET product == Products_get_product(products, m.event)
            IN  IF product = None
                THEN Raise(m, f, "TypeError")
                ELSE Goto(m, [f EXCEPT !.price = product[2]], "a_p3")
      [] OTHER ->
            IF Money_get_amount(m.amount) >= f.price
            THEN Goto(m, f, "d0")
            ELSE Goto(Emit(m, <<"print", "Insufficient funds">>), f, "display")

\* go_to_state('deliver_product') and DeliverProductState.on_entry;
\* Money.subtract is a test, then a load and a store
StepDeliver(m, f) ==
    CASE f.pc = "d0" -> Goto([m EXCEPT !.state = "deliver_product"], f, "d1")
      [] f.pc = "d1" ->
            LET product == Products_get_product(products, m.event)
            IN  IF product = None
                THEN Raise(m, f, "TypeError")
                ELSE Goto(m, [f EXCEPT !.product = m.event, !.price = product[2]], "d3")
      [] f.pc = "d3" ->
            IF f.price <= m.amount
            THEN Goto(m, f, "d3r")
            ELSE Goto(Emit(m, <<"subtract", FALSE>>), f, "d4")
      [] f.pc = "d3r" -> Goto(m, [f EXCEPT !.tmp = m.amount], "d3w")
      [] f.pc = "d3w" ->
            Goto(Emit([m EXCEPT !.amount = f.tmp - f.price], <<"subtract", TRUE>>),
                 f, "d4")
      [] f.pc = "d4" -> Goto(Emit(m, <<"dispense_product", f.product>>), f, "d5")
      [] OTHER -> Goto([m EXCEPT !.state = "add_coins"], f, "display")

\* CountChangeState.update; machine.change_due -= coin_value is a load
\* followed by a store
StepCountChange(m, f) ==
    CASE f.pc = "c_for" ->
            IF f.i <= Len(m.coin_values)
            THEN Goto(m, f, "c_while")
            ELSE Goto(m, f, "c_if")
      [] f.pc = "c_while" ->
            IF m.change_due >= m.coin_values[f.i]
            THEN Goto(m, f, "c_r")
            ELSE Goto(m, [f EXCEPT !.i = @ + 1], "c_for")
      [] f.pc = "c_r" -> Goto(m, [f EXCEPT !.tmp = m.change_due], "c_w")
      [] f.pc = "c_w" ->
            LET coin_value == m.coin_values[f.i]
            IN  Goto(PulseChangeLed(Emit([m EXCEPT !.change_due = f.tmp - coin_value],
                                         <<"return_coin", coin_value>>)),
                     f, "c_while")
      [] OTHER ->
            IF m.change_due = 0
            THEN Goto([m EXCEPT !.state = "waiting"], f, "display")
            ELSE Goto(m, f, "display")

\* one access of the thread with frame f
Step(m, f) ==
    CASE f.pc = "update" -> StepUpdate(m, f)
      [] f.pc \in {"add", "add_r", "add_w"} -> StepAddCoin(m, f)
      [] f.pc \in {"w1", "w_goto", "w2", "w3"} -> StepWaiting(m, f)
      [] f.pc \in {"a1", "a_r1", "a_r2", "a_r3", "a_r4", "a2", "a3", "a_p1", "a_p3"} ->
            StepAddCoins(m, f)
      [] f.pc \in {"d0", "d1", "d3", "d3r", "d3w", "d4", "d5"} -> StepDeliver(m, f)
      [] f.pc \in {"c_for", "c_while", "c_r", "c_w", "c_if"} -> StepCountChange(m, f)
      [] OTHER -> [m |-> VendingMachine_update_display(m), f |-> NoFrame]

\* the events the main loop is fed while the button thread runs: two coins, a
\* product within reach and one out of reach, RETURN and the timeout
RaceEvents == {"5", "10", "surprise", "gum", "RETURN", "__TIMEOUT__"}

\* the thread is inside update()
InUpdate(f) == f.pc \notin {"idle", "raised"}

\* the main loop hands over the event window.read returned; out starts afresh
MainEvent ==
    \E e \in RaceEvents :
        /\ threads.main.pc = "idle"
        /\ threads.events < MaxRaceEvents
        /\ e \in CoinKeys => amount + coins[e][2] <= MaxRaceBalance
        /\ event' = e
        /\ out' = <<>>
        /\ threads' = [threads EXCEPT !.main.pc = "update", !.events = @ + 1]
        /\ UNCHANGED <<state, amount, change_due, coins, coin_values, display,
                       last_update_message_shown, call, inserted, loop, client, server, connection>>

\* the main thread makes the next access of its update() call
MainStep ==
    /\ InUpdate(threads.main)
    /\ LET r == Step(Machine, threads.main)
       IN  /\ SetMachine(r.m)
           /\ threads' = [threads EXCEPT !.main = r.f]
    /\ UNCHANGED <<call, inserted, loop, client, server, connection>>

\* the button is pressed: button_action sets self.event = 'RETURN'
ButtonPress ==
    /\ threads.main.pc # "raised"
    /\ threads.button.pc = "idle"
    /\ threads.presses < MaxPresses
    /\ event' = "RETURN"
    /\ threads' = [threads EXCEPT !.button.pc = "update", !.presses = @ + 1]
    /\ UNCHANGED <<state, amount, change_due, coins, coin_values, display,
                   last_update_message_shown, out, call, inserted, loop, client, server, connection>>

\* the button thread makes the next access of its update() call
ButtonStep ==
    /\ threads.main.pc # "raised"
    /\ InUpdate(threads.button)
    /\ LET r == Step(Machine, threads.button)
       IN  /\ SetMachine(r.m)
           /\ threads' = [threads EXCEPT !.button = r.f]
    /\ UNCHANGED <<call, inserted, loop, client, server, connection>>

NextButton == MainEvent \/ MainStep \/ ButtonPress \/ ButtonStep

SpecButton == Init /\ [][NextButton]_vars

(***************************************************************************)
(* ClientTH.py: one ClientThread, from start() on.  client.pc is the place *)
(* in run(): "while" (the loop test), "begin" (top of the try block),      *)
(* "connect", "send", "wait" (the sleep at the end of the body), "final"   *)
(* (the test after the loop) and "ended".  client.posted holds the final   *)
(* events written to the window, client.status the iteration number of the *)
(* last -STATUS- event, client.sent how many sends have succeeded.  What   *)
(* the network does in an iteration is drawn anew each time.               *)
(***************************************************************************)
MAX_ITERATIONS == 50

\* ClientThread.__init__ followed by start()
ClientThread_init ==
    [pc |-> "while", running |-> TRUE, iteration |-> 0, completed_iterations |-> 0,
     sent |-> 0, status |-> 0, posted |-> <<>>,
     main |-> "loop", abandoned |-> 0, started |-> 1]

\* iteration <= MAX_ITERATIONS written in the loop test
ClientThread_loop_test_inclusive(c) == c.running /\ c.iteration <= MAX_ITERATIONS

\* while self.running and iteration < MAX_ITERATIONS
ClientThread_loop_test(c) == c.running /\ c.iteration < MAX_ITERATIONS

\* if iteration >= MAX_ITERATIONS: the running flag is not looked at
ClientThread_final_event_unstopped(c) ==
    IF c.iteration >= MAX_ITERATIONS
    THEN <<"-COMPLETE-", c.completed_iterations>>
    ELSE <<"-STOPPED-", c.completed_iterations>>

\* if self.running and iteration >= MAX_ITERATIONS: -COMPLETE- else: -STOPPED-
ClientThread_final_event(c) ==
    IF c.running /\ c.iteration >= MAX_ITERATIONS
    THEN <<"-COMPLETE-", c.completed_iterations>>
    ELSE <<"-STOPPED-", c.completed_iterations>>

OtherThanClient ==
    <<state, event, amount, change_due, coins, coin_values, display,
      last_update_message_shown, out, call, inserted, loop, threads, server,
      connection>>

InitClient ==
    /\ InitOf(NewMachine(setup_coins))
    /\ call = NoCall
    /\ inserted = NoInserted
    /\ loop = Idle
    /\ threads = NoThreads
    /\ client = ClientThread_init
    /\ server = NoServer
    /\ connection = NoConnection

\* the loop test
ClientWhile ==
    /\ client.pc = "while"
    /\ client' = [client EXCEPT !.pc = IF ClientThread_loop_test(client)
                                       THEN "begin" ELSE "final"]
    /\ UNCHANGED OtherThanClient

\* iteration += 1, the -STATUS- event, collecting and encoding the data and
\* creating the socket; an exception there is caught by the outer handler
ClientBegin ==
    \E outcome \in {"ok", "exception"} :
        /\ client.pc = "begin"
        /\ client' = [client EXCEPT !.iteration = @ + 1,
                                    !.status = client.iteration + 1,
                                    !.pc = IF outcome = "ok" THEN "connect" ELSE "while"]
        /\ UNCHANGED OtherThanClient

\* s.connect: ConnectionRefusedError and socket.timeout are caught by the inner
\* handler, any other exception by the outer one, which skips the sleep
ClientConnect ==
    \E outcome \in {"ok", "refused", "timeout", "oserror"} :
        /\ client.pc = "connect"
        /\ client' = [client EXCEPT !.pc = CASE outcome = "ok"      -> "send"
                                             [] outcome = "oserror" -> "while"
                                             [] OTHER               -> "wait"]
        /\ UNCHANGED OtherThanClient

\* s.send, s.close and self.completed_iterations = iteration
ClientSend ==
    \E outcome \in {"ok", "timeout", "oserror"} :
        /\ client.pc = "send"
        /\ client' = CASE outcome = "ok" ->
                            [client EXCEPT !.sent = @ + 1,
                                           !.completed_iterations = client.iteration,
                                           !.pc = "wait"]
                       [] outcome = "oserror" -> [client EXCEPT !.pc = "while"]
                       [] OTHER -> [client EXCEPT !.pc = "wait"]
        /\ UNCHANGED OtherThanClient

\* if iteration < MAX_ITERATIONS and self.running: the sleep is entered
ClientWait ==
    /\ client.pc = "wait"
    /\ client' = [client EXCEPT !.pc = IF client.iteration < MAX_ITERATIONS /\ client.running
                                       THEN "sleep" ELSE "while"]
    /\ UNCHANGED OtherThanClient

\* time.sleep(SAMPLE_INTERVAL) returns
ClientSleep ==
    /\ client.pc = "sleep"
    /\ client' = [client EXCEPT !.pc = "while"]
    /\ UNCHANGED OtherThanClient

\* the final event, after which run() returns
ClientFinal ==
    /\ client.pc = "final"
    /\ client' = [client EXCEPT !.posted = Append(@, ClientThread_final_event(client)),
                                !.pc = "ended"]
    /\ UNCHANGED OtherThanClient

\* ClientThread.stop, called by the main loop at any moment
ClientStop ==
    /\ client.running
    /\ client' = [client EXCEPT !.running = FALSE]
    /\ UNCHANGED OtherThanClient

ClientRun ==
    \/ ClientWhile
    \/ ClientBegin
    \/ ClientConnect
    \/ ClientSend
    \/ ClientWait
    \/ ClientSleep
    \/ ClientFinal

NextClient == ClientRun \/ ClientStop

SpecClient == InitClient /\ [][NextClient]_vars

\* the interpreter keeps scheduling the thread, and every call in run() returns
\* (connect and send time out after 5 s)
SpecClientFair == SpecClient /\ WF_vars(ClientRun)

(***************************************************************************)
(* ClientTH.py: the main loop's -START- and -STOP- handlers around the     *)
(* ClientThread.  client holds the thread client_thread refers to (pc      *)
(* "none" while client_thread is None); client.abandoned counts the        *)
(* threads client_thread no longer refers to that have not ended yet,      *)
(* client.started the threads created so far, and client.main is "loop"    *)
(* (window.read), "join" (inside the -STOP- handler) or "exited".          *)
(***************************************************************************)
\* the threads one session may create in the model
MaxThreads == 2

\* threading.Thread.is_alive of the thread client_thread refers to
is_alive(c) == c.pc \notin {"none", "ended"}

\* the blocking calls of run(): connect and send (timeout 5 s) and the sleep
\* of SAMPLE_INTERVAL = 2 s outlast join(timeout=1)
Blocking(c) == c.pc \in {"connect", "send", "sleep"}

InitSession ==
    /\ InitOf(NewMachine(setup_coins))
    /\ call = NoCall
    /\ inserted = NoInserted
    /\ loop = Idle
    /\ threads = NoThreads
    /\ client = NoClient
    /\ server = NoServer
    /\ connection = NoConnection

\* -START-: if client_thread is None or not client_thread.is_alive():
\* client_thread = ClientThread(...); client_thread.start()
MainStart ==
    /\ client.main = "loop"
    /\ ~is_alive(client)
    /\ client.started < MaxThreads
    /\ client' = [ClientThread_init EXCEPT !.abandoned = client.abandoned,
                                           !.started = client.started + 1]
    /\ UNCHANGED OtherThanClient

\* -STOP-: if client_thread and client_thread.is_alive(): client_thread.stop()
MainStop ==
    /\ client.main = "loop"
    /\ is_alive(client)
    /\ client' = [client EXCEPT !.running = FALSE, !.main = "join"]
    /\ UNCHANGED OtherThanClient

\* client_thread.join(timeout=1) returns because the thread has ended or, with
\* the thread inside a blocking call, because the second is over; the window
\* is closed and the reconnection loop ends with client_thread = None
MainReconnect ==
    /\ client.main = "join"
    /\ ~is_alive(client) \/ Blocking(client)
    /\ client' = [NoClient EXCEPT !.abandoned = client.abandoned
                                                   + (IF is_alive(client) THEN 1 ELSE 0),
                                  !.started = client.started]
    /\ UNCHANGED OtherThanClient

\* the user cancels the reconnection: main returns
MainExit ==
    /\ client.main = "join"
    /\ ~is_alive(client) \/ Blocking(client)
    /\ client' = [client EXCEPT !.main = "exited"]
    /\ UNCHANGED OtherThanClient

\* a thread client_thread no longer refers to leaves its blocking call, finds
\* running False, posts -STOPPED- to the closed window and ends
AbandonedEnds ==
    /\ client.main # "exited"
    /\ client.abandoned > 0
    /\ client' = [client EXCEPT !.abandoned = @ - 1]
    /\ UNCHANGED OtherThanClient

\* the daemon thread runs as long as the process does
SessionRun == client.main # "exited" /\ ClientRun

NextSession ==
    \/ MainStart
    \/ MainStop
    \/ MainReconnect
    \/ MainExit
    \/ AbandonedEnds
    \/ SessionRun

SpecSession == InitSession /\ [][NextSession]_vars

(***************************************************************************)
(* ClientTH.py: establish_connection, one dialog or connection test at a   *)
(* time.  An IP address typed by the user is the sequence of the numbers   *)
(* between its dots.  connection.pc is "dialog" (show_connection_dialog),  *)
(* "test" (test_server_connection, the top of the while loop), "failed"    *)
(* (show_connection_failed_dialog), "input" (show_ip_input_dialog) or      *)
(* "returned"; choice and input are the locals choice and                  *)
(* (should_continue, new_ip); attempts counts the connection tests made.   *)
(***************************************************************************)
DEFAULT_SERVER_IP == <<127, 0, 0, 1>>

\* what the user can type into an IP field
TypedAddresses ==
    {<<127, 0, 0, 1>>, <<192, 168, 1, 100>>, <<10, 0, 0, 7>>, <<256, 1, 1, 1>>,
     <<10, 0, 7>>}

\* len(parts) == 4 and all(0 <= int(part) <= 255 for part in parts)
validate_ip(ip) == Len(ip) = 4 /\ \A n \in 1..Len(ip) : ip[n] >= 0 /\ ip[n] <= 255

\* the connection tests one run of establish_connection may make in the model
MaxAttempts == 6

OtherThanConnection ==
    <<state, event, amount, change_due, coins, coin_values, display,
      last_update_message_shown, out, call, inserted, loop, threads, client, server>>

\* establish_connection(DEFAULT_SERVER_IP, DEFAULT_PORT) has been called
InitConnection ==
    /\ InitOf(NewMachine(setup_coins))
    /\ call = NoCall
    /\ inserted = NoInserted
    /\ loop = Idle
    /\ threads = NoThreads
    /\ client = NoClient
    /\ server = NoServer
    /\ connection = [NoConnection EXCEPT !.pc = "dialog"]

\* show_connection_dialog returns: cancelled, the default IP, or a custom IP
\* that passed validate_ip (an invalid one keeps the dialog open)
ShowConnectionDialog ==
    /\ connection.pc = "dialog"
    /\ \/ connection' = [connection EXCEPT !.ret = <<FALSE, None>>, !.pc = "returned"]
       \/ connection' = [connection EXCEPT !.current_ip = DEFAULT_SERVER_IP,
                                           !.pc = "test"]
       \/ \E custom_ip \in TypedAddresses :
             /\ validate_ip(custom_ip)
             /\ connection' = [connection EXCEPT !.current_ip = custom_ip, !.pc = "test"]
    /\ UNCHANGED OtherThanConnection

\* success, message = test_server_connection(current_ip, port) at the top of
\* the while loop, and the return on success
TestServerConnection ==
    \E success \in BOOLEAN :
        /\ connection.pc = "test"
        /\ connection.attempts < MaxAttempts
        /\ connection' = IF success
                         THEN [connection EXCEPT !.attempts = @ + 1,
                                                 !.ret = <<TRUE, connection.current_ip>>,
                                                 !.pc = "returned"]
                         ELSE [connection EXCEPT !.attempts = @ + 1, !.pc = "failed"]
        /\ UNCHANGED OtherThanConnection

\* choice = show_connection_failed_dialog(...): quit returns, retry continues
\* the loop, change opens the IP input dialog
ShowConnectionFailedDialog ==
    \E choice \in {"quit", "retry", "change"} :
        /\ connection.pc = "failed"
        /\ connection' = CASE choice = "quit" ->
                                [connection EXCEPT !.choice = choice,
                                                   !.ret = <<FALSE, None>>,
                                                   !.pc = "returned"]
                            [] choice = "retry" ->
                                [connection EXCEPT !.choice = choice, !.pc = "test"]
                            [] OTHER ->
                                [connection EXCEPT !.choice = choice, !.pc = "input"]
        /\ UNCHANGED OtherThanConnection

\* should_continue, new_ip = show_ip_input_dialog(current_ip, port): on cancel
\* `continue` goes to the top of the while loop, as it does after
\* current_ip = new_ip
ShowIpInputDialog ==
    /\ connection.pc = "input"
    /\ \/ connection' = [connection EXCEPT !.input = <<FALSE, None>>, !.pc = "test"]
       \/ \E new_ip \in TypedAddresses :
             /\ validate_ip(new_ip)
             /\ connection' = [connection EXCEPT !.input = <<TRUE, new_ip>>,
                                                 !.current_ip = new_ip,
                                                 !.pc = "test"]
    /\ UNCHANGED OtherThanConnection

NextConnection ==
    \/ ShowConnectionDialog
    \/ TestServerConnection
    \/ ShowConnectionFailedDialog
    \/ ShowIpInputDialog

SpecConnection == InitConnection /\ [][NextConnection]_vars

(***************************************************************************)
(* ServerTH.py: the ServerThread receives one message per connection and   *)
(* writes events to the window; the GUI loop of main reads them one by     *)
(* one.  A message is the sequence of bytes recv returned; server.queue    *)
(* holds the events written and not yet read, server.valid counts the      *)
(* messages received that were valid JSON, server.toggles the times the    *)
(* GUI loop has switched the LED.                                          *)
(***************************************************************************)
\* nothing, an object, a number, a truncated object, garbage, a byte that is
\* not UTF-8
Messages ==
    {<<>>, <<"{", "}">>, <<"1">>, <<"{">>, <<"}", "{">>, <<"{", "xff", "}">>}

\* the messages that are JSON texts
ValidJSON == {<<"{", "}">>, <<"1">>}

\* data_received.decode('utf-8'): [ok, text]
decode_utf8(bytes) ==
    IF \E n \in 1..Len(bytes) : bytes[n] = "xff"
    THEN [ok |-> FALSE, text |-> <<>>]
    ELSE [ok |-> TRUE, text |-> bytes]

\* json.loads(json_string): [ok, data]; a value is a number or an object
json_loads(text) ==
    CASE text = <<"1">> -> [ok |-> TRUE, data |-> 1]
      [] Len(text) = 2 /\ text[1] = "{" /\ text[2] = "}" ->
            [ok |-> TRUE, data |-> <<>>]
      [] OTHER -> [ok |-> FALSE, data |-> <<>>]

\* the LED is toggled for a message that does not parse, too
ServerThread_events_toggle_always(data_received) ==
    <<<<"-STATUS-", "Connected">>>> \o
    (IF data_received # <<>>
     THEN LET d == decode_utf8(data_received)
          IN  IF ~d.ok
              THEN <<<<"-ERROR-", "Data processing error">>>>
              ELSE IF ~json_loads(d.text).ok
              THEN <<<<"-ERROR-", "JSON parse error">>, <<"-LED_TOGGLE-", TRUE>>>>
              ELSE <<<<"-DATA-", d.text>>, <<"-LED_TOGGLE-", TRUE>>>>
     ELSE <<>>)

\* the events one pass of the loop in ServerThread.run writes after accept
\* and recv have returned data_received
ServerThread_events(data_received) ==
    <<<<"-STATUS-", "Connected">>>> \o
    (IF data_received # <<>>
     THEN LET d == decode_utf8(data_received)
          IN  IF ~d.ok
              THEN <<<<"-ERROR-", "Data processing error">>>>
              ELSE IF ~json_loads(d.text).ok
              THEN <<<<"-ERROR-", "JSON parse error">>>>
              ELSE <<<<"-DATA-", d.text>>, <<"-LED_TOGGLE-", TRUE>>>>
     ELSE <<>>)

OtherThanServer ==
    <<state, event, amount, change_due, coins, coin_values, display,
      last_update_message_shown, out, call, inserted, loop, threads, client,
      connection>>

\* accept and recv return, the message is handled and the connection closed
ServerReceive ==
    \E data_received \in Messages :
        /\ server.received < MaxMessages
        /\ server' = [server EXCEPT
                         !.queue = @ \o ServerThread_events(data_received),
                         !.received = @ + 1,
                         !.valid = @ + (IF data_received \in ValidJSON THEN 1 ELSE 0)]
        /\ UNCHANGED OtherThanServer

\* recv raises (the peer reset the connection): the outer handler reports it
ServerReceiveError ==
    /\ server.received < MaxMessages
    /\ server' = [server EXCEPT
                     !.queue = @ \o <<<<"-STATUS-", "Connected">>,
                                      <<"-ERROR-", "Connection error">>>>,
                     !.received = @ + 1]
    /\ UNCHANGED OtherThanServer

\* window.read returns the oldest event; -LED_TOGGLE- flips led_state
ServerGuiRead ==
    /\ server.queue # <<>>
    /\ server' = IF Head(server.queue)[1] = "-LED_TOGGLE-"
                 THEN [server EXCEPT !.queue = Tail(@),
                                     !.led_state = ~@,
                                     !.toggles = @ + 1]
                 ELSE [server EXCEPT !.queue = Tail(@)]
    /\ UNCHANGED OtherThanServer

NextServer == ServerReceive \/ ServerReceiveError \/ ServerGuiRead

SpecServer == Init /\ [][NextServer]_vars

(***************************************************************************)
(* Reading the output of an update() call.                                 *)
(***************************************************************************)
\* the entries of seq o whose first component is kind
OfKind(o, kind) == SelectSeq(o, LAMBDA x : x[1] = kind)

\* how many products the last update() released
Dispensed == Len(OfKind(out', "dispense_product"))

\* the denominations of the change coins the last update() returned, in order
Returned(o) == [n \in 1..Len(OfKind(o, "return_coin")) |-> OfKind(o, "return_coin")[n][2]]

RECURSIVE SumSeq(_)
SumSeq(s) == IF s = <<>> THEN 0 ELSE Head(s) + SumSeq(Tail(s))

price(k) == products[k][2]

\* C1: a product event in add_coins with balance >= price ends, within the same
\* update() call, in add_coins with the balance lowered by exactly the price and
\* exactly one product released, also when the balance reaches 0.
C1_Purchase ==
    [][\A k \in ProductKeys :
         (state = "add_coins" /\ event' = k /\ amount >= price(k))
            => /\ state' = "add_coins"
               /\ amount' = amount - price(k)
               /\ Dispensed = 1
               /\ OfKind(out', "dispense_product")[1][2] = k]_vars

\* a purchase has just been completed and has emptied the ledger
C1_Witness ==
    /\ state = "add_coins"
    /\ event \in ProductKeys
    /\ amount = 0
    /\ Len(OfKind(out, "dispense_product")) = 1

RECURSIVE PayableSums(_, _, _)
PayableSums(S, ds, n) ==
    LET T == S \cup {x \in {s + d : s \in S, d \in ds} : x <= n}
    IN  IF T = S THEN S ELSE PayableSums(T, ds, n)

Denominations(vals) == {vals[n] : n \in 1..Len(vals)}

\* n cents can be paid exactly with coins of the denominations vals
Payable(n, vals) == n \in PayableSums({0}, Denominations(vals), n)

LargestAtMost(n, vals) ==
    CHOOSE d \in Denominations(vals) :
        /\ d <= n
        /\ \A e \in Denominations(vals) : e <= n => e <= d

\* C3: when the amount owed is exactly payable, the update() call that runs the
\* change loop returns coins in non-increasing denomination order, each of them
\* the largest denomination <= the amount still owed at that moment, and the
\* coins sum to exactly the amount owed.
C3_Greedy ==
    [][(state = "count_change" /\ Payable(change_due, coin_values))
          => LET r == Returned(out')
             IN  /\ \A n \in 1..(Len(r) - 1) : r[n] >= r[n + 1]
                 /\ \A n \in 1..Len(r) :
                       LET owing == change_due - SumSeq(SubSeq(r, 1, n - 1))
                       IN  /\ \E d \in Denominations(coin_values) : d <= owing
                           /\ r[n] = LargestAtMost(owing, coin_values)
                 /\ SumSeq(r) = change_due]_vars

\* owed 30 has been returned as one 25 and one 5
C3_Witness ==
    /\ state = "waiting"
    /\ Returned(out) = <<25, 5>>
    /\ change_due = 0

\* C4: when the amount owed is not exactly payable, the update() call that runs
\* the change loop signals ChangeNotRepresentable and ends in waiting.
C4_Original ==
    [][(state = "count_change" /\ ~Payable(change_due, coin_values))
          => /\ state' = "waiting"
             /\ OfKind(out', "ChangeNotRepresentable") # <<>>]_vars

\* C5: the change loop of CountChangeState.update terminates for every amount
\* owed >= 0 and every list of positive denominations, payable or not.
C5_Terminates == <>(loop.pc = "done")

\* the loop has ended on an amount it could pay only in part
C5_Witness ==
    /\ loop.pc = "done"
    /\ change_due > 0
    /\ Returned(out) # <<>>

C7_BalanceNonNegative == amount >= 0

\* a debit has just taken the whole balance
C7_Witness ==
    /\ amount = 0
    /\ OfKind(out, "subtract") = <<<<"subtract", TRUE>>>>

\* C8: Money.subtract(value) returns True and lowers the balance by value when
\* value <= balance; otherwise it returns False and leaves the balance unchanged.
C8_Subtract ==
    [][call'.op = "subtract"
          => IF call'.arg <= amount
             THEN call'.ret = TRUE /\ amount' = amount - call'.arg
             ELSE call'.ret = FALSE /\ amount' = amount]_vars

\* a debit larger than a positive balance has been refused
C8_Witness ==
    /\ call.op = "subtract"
    /\ call.ret = FALSE
    /\ amount > 0
    /\ call.arg > amount

RECURSIVE SumOver(_, _)
SumOver(S, f) ==
    IF S = {} THEN 0
    ELSE LET k == CHOOSE x \in S : TRUE
         IN  f[k] + SumOver(S \ {k}, f)

\* C9: on a fresh machine fed coin events only, the balance is the sum of the
\* face values of the coins inserted; it depends on how many coins of each kind
\* were inserted, not on their order.
C9_BalanceIsSum ==
    amount = SumOver(CoinKeys, [k \in CoinKeys |-> inserted[k] * coins[k][2]])

\* three different coins, one of them twice, have been inserted in some order
C9_Witness ==
    /\ inserted["5"] = 2
    /\ inserted["25"] = 1
    /\ inserted["100"] = 1
    /\ inserted["10"] = 0
    /\ inserted["200"] = 0
    /\ amount = 135

\* C10: a coin event in waiting or in add_coins credits exactly the face value
\* of the coin and ends in add_coins; nothing is dispensed, no coin is returned
\* and change_due is unchanged.
C10_CoinEvent ==
    [][\A k \in CoinKeys :
         (event' = k /\ state \in {"waiting", "add_coins"})
            => /\ amount' = amount + coins[k][2]
               /\ state' = "add_coins"
               /\ change_due' = change_due
               /\ out' = <<>>]_vars

\* a coin has been credited on top of an earlier balance
C10_Witness ==
    /\ state = "add_coins"
    /\ event \in CoinKeys
    /\ amount > coins[event][2]
    /\ out = <<>>

\* how often the change LED blinks in the output o
RECURSIVE LedBlinks(_)
LedBlinks(o) ==
    IF o = <<>> THEN 0
    ELSE LedBlinks(Tail(o)) +
         CASE Head(o)[1] = "blink_change_led" -> Head(o)[2]
           [] Head(o)[1] = "led_pulse"        -> 1
           [] OTHER                           -> 0

Printed(o, text) == \E n \in 1..Len(o) : o[n] = <<"print", text>>

\* C11: a product event in waiting is rejected with a message: the state stays
\* waiting, the balance stays 0 and no product is released.
C11_ProductInWaiting ==
    [][\A k \in ProductKeys :
         (state = "waiting" /\ event' = k)
            => /\ state' = "waiting"
               /\ amount = 0
               /\ amount' = 0
               /\ OfKind(out', "dispense_product") = <<>>
               /\ Printed(out', "Please insert coins first")]_vars

\* a product has been asked for in waiting
C11_Witness ==
    /\ state = "waiting"
    /\ event \in ProductKeys
    /\ out = <<<<"print", "Please insert coins first">>>>

\* C12: a product event in add_coins with balance < price is rejected: the state
\* stays add_coins, balance and change_due are unchanged, no product is released.
C12_InsufficientFunds ==
    [][\A k \in ProductKeys :
         (state = "add_coins" /\ event' = k /\ amount < price(k))
            => /\ state' = "add_coins"
               /\ amount' = amount
               /\ change_due' = change_due
               /\ OfKind(out', "dispense_product") = <<>>
               /\ Printed(out', "Insufficient funds")]_vars

\* a product dearer than the positive balance has been asked for
C12_Witness ==
    /\ state = "add_coins"
    /\ event \in ProductKeys
    /\ amount > 0
    /\ amount < price(event)
    /\ out = <<<<"print", "Insufficient funds">>>>

\* C13: a return event in waiting changes neither state, balance nor change_due,
\* and neither returns a coin nor blinks the change LED.
C13_ReturnInWaiting ==
    [][(state = "waiting" /\ event' = "RETURN")
          => /\ state' = "waiting"
             /\ amount' = amount
             /\ change_due' = change_due
             /\ Returned(out') = <<>>
             /\ LedBlinks(out') = 0]_vars

\* return has been pressed in waiting
C13_Witness ==
    /\ state = "waiting"
    /\ event = "RETURN"
    /\ out = <<<<"print", "No money to return">>>>

\* C14: a return event in add_coins clears the ledger and captures the balance
\* held just before it: what is still due plus what has been paid equals it.
C14_ReturnCapturesBalance ==
    [][(state = "add_coins" /\ event' = "RETURN")
          => /\ amount' = 0
             /\ change_due' + SumSeq(Returned(out')) = amount]_vars

\* a positive balance has been captured as the amount owed
C14_Witness ==
    /\ state = "count_change"
    /\ event = "RETURN"
    /\ change_due > 0
    /\ amount = 0

\* the last update() was a purchase that took the whole balance
BoughtForExactBalance ==
    /\ state = "add_coins"
    /\ amount = 0
    /\ event \in ProductKeys
    /\ OfKind(out, "dispense_product") # <<>>

C16_DebitSucceeds ==
    \A n \in 1..Len(out) : out[n][1] = "subtract" => out[n][2] = TRUE

\* a product has been paid for and some balance is left
C16_Witness ==
    /\ OfKind(out, "subtract") = <<<<"subtract", TRUE>>>>
    /\ amount > 0
    /\ state = "add_coins"

\* C18: no update() call raises: whatever the state and the event (coin id,
\* product id, RETURN, unrecognized token), update() runs to its end.
C18_NoException == ~Raised(out)

\* a purchase has run to the end of update(), display refresh included
C18_Witness ==
    /\ state = "add_coins"
    /\ event \in ProductKeys
    /\ amount > 0
    /\ Len(OfKind(out, "dispense_product")) = 1
    /\ ~Raised(out)
    /\ display = <<"Current Amount: ", Money_get_formatted(amount)>>

\* C19: once a return event has been delivered and update() keeps being called,
\* the machine is eventually in waiting.
C19_WaitingReentered == (event = "RETURN") ~> (state = "waiting")

\* waiting has been re-entered by the update() that paid the change
C19_Witness ==
    /\ state = "waiting"
    /\ event \in CoinKeys
    /\ Returned(out) # <<>>
    /\ change_due = 0

\* the coin returns and LED signals of the output o, in order
Signals(o) ==
    SelectSeq(o, LAMBDA x : x[1] \in {"return_coin", "led_pulse", "blink_change_led"})

\* the update() about to run belongs to a change return
InReturn ==
    \/ state = "add_coins" /\ event' = "RETURN"
    \/ state = "count_change"

C17_Original == ~(InUpdate(threads.main) /\ InUpdate(threads.button))

\* the amount in cents that the text of the display shows
Displayed == display[2][1] * 100 + display[2][2]

C22_Original ==
    [][call'.op = "clear"
          => /\ amount' = 0
             /\ call'.ret # None
             /\ call'.ret = amount]_vars

\* C22 amended: clear() sets the balance to 0 and returns nothing (None).
C22_ClearReturnsNone ==
    [][call'.op = "clear" => (amount' = 0 /\ call'.ret = None)]_vars

\* a clear() call has just returned
C22_Witness ==
    /\ call.op = "clear"
    /\ call.ret = None
    /\ amount = 0

\* C23: machine.coin_values holds the face value of every registered coin, as
\* often as coins have that value, and is sorted in descending order.
C23_CoinValues ==
    /\ Len(coin_values) = Cardinality(DOMAIN coins)
    /\ \A k \in DOMAIN coins :
          Cardinality({n \in 1..Len(coin_values) : coin_values[n] = coins[k][2]})
             = Cardinality({j \in DOMAIN coins : coins[j][2] = coins[k][2]})
    /\ \A n \in 1..(Len(coin_values) - 1) : coin_values[n] >= coin_values[n + 1]

\* a catalog of three coins, two of them of the same value
C23_Witness ==
    /\ Cardinality(DOMAIN coins) = 3
    /\ coin_values = <<5, 3, 3>>

\* C26: whatever the interleaving of button_action with the main loop's
\* update(), a product is released only after a Money.subtract that succeeded:
\* there are never more releases than successful debits.
C26_Original ==
    Len(OfKind(out, "dispense_product"))
       <= Len(SelectSeq(out, LAMBDA x : x = <<"subtract", TRUE>>))

\* C27: whenever DeliverProductState.on_entry looks machine.event up, it is the
\* id of a known product, the one whose price AddCoinsState.update has checked.
C27_Original ==
    \A t \in {"main", "button"} :
        threads[t].pc = "d1"
           => /\ event \in ProductKeys
              /\ price(event) = threads[t].price

\* the prices of the products released in the output o
RECURSIVE DispensedPrices(_)
DispensedPrices(o) ==
    IF o = <<>> THEN 0
    ELSE DispensedPrices(Tail(o)) +
         (IF Head(o)[1] = "dispense_product" THEN price(Head(o)[2]) ELSE 0)

\* C28: money is conserved.  Every update() call keeps the account: the face
\* value of the coin it was handed is what balance + change_due gain, less the
\* change coins it returns and the price of the product it releases.  (With
\* all totals 0 at the start this is the claimed equation in every state.)
C28_Original ==
    [][amount' + change_due' + SumSeq(Returned(out')) + DispensedPrices(out')
          = amount + change_due
               + (IF event' \in CoinKeys THEN coins[event'][2] ELSE 0)]_vars

\* C29: in every state in which update() can be called, count_change included,
\* an update() with a coin id raises the balance by the coin's face value.
C29_Original ==
    [][\A k \in CoinKeys : event' = k => amount' = amount + coins[k][2]]_vars

\* C30: in waiting balance and change_due are 0, in count_change the balance is
\* 0; a positive balance is held in add_coins only.
C30_BalanceOnlyInAddCoins ==
    /\ state = "waiting" => (amount = 0 /\ change_due = 0)
    /\ state = "count_change" => amount = 0
    /\ amount > 0 => state = "add_coins"

\* waiting has been re-entered with nothing held after a change return, and
\* before that add_coins held the balance now paid out
C30_Witness ==
    /\ state = "waiting"
    /\ amount = 0
    /\ change_due = 0
    /\ SumSeq(Returned(out)) >= 100

\* the never-stopped thread has ended after MAX_ITERATIONS iterations with
\* -COMPLETE- as its only final event
CompletedAll ==
    /\ client.pc = "ended"
    /\ client.iteration = MAX_ITERATIONS
    /\ client.status = MAX_ITERATIONS
    /\ Len(client.posted) = 1
    /\ client.posted[1][1] = "-COMPLETE-"

PendingToggles == Len(OfKind(server.queue, "-LED_TOGGLE-"))

\* C25: the LED has been toggled exactly once for every valid JSON message whose
\* events the GUI loop has read, never for an empty or malformed one, so it is
\* on exactly when that number of messages is odd.
C25_LedToggles ==
    /\ server.toggles = server.valid - PendingToggles
    /\ server.led_state <=> ((server.valid - PendingToggles) % 2 = 1)

\* two valid and two other messages have been handled: the LED is off again
C25_Witness ==
    /\ server.received = 4
    /\ server.valid = 2
    /\ server.queue = <<>>
    /\ ~server.led_state

\* C31: with the shipped catalog the balance and change_due are multiples of 5
\* in every reachable state, and the update() call that runs the change loop
\* always ends with change_due = 0 and the machine in waiting.
C31_MultiplesOfFive ==
    /\ [](amount % 5 = 0 /\ change_due % 5 = 0)
    /\ [][state = "count_change" => (change_due' = 0 /\ state' = "waiting")]_vars

\* 35 cents were owed and have been paid out in full by one update()
C31_Witness ==
    /\ state = "waiting"
    /\ change_due = 0
    /\ Returned(out) = <<25, 10>>

\* C32: deliver_product is transient: once an update() call has returned the
\* current state is never deliver_product.
C32_DeliverTransient == state # "deliver_product"

\* gum has been delivered out of a balance of 40 and the machine is back in
\* add_coins
C32_Witness ==
    /\ state = "add_coins"
    /\ event = "gum"
    /\ OfKind(out, "dispense_product") # <<>>
    /\ amount = 40 - price("gum")

\* the smallest denomination of the machine's cached list
SmallestCoin == coin_values[Len(coin_values)]

\* C33: after the change loop has run, what is still owed is >= 0 and below the
\* smallest denomination, and the coins returned sum to the amount owed before
\* the loop minus that remainder.
C33_Remainder ==
    [][state = "count_change"
          => /\ change_due' >= 0
             /\ change_due' < SmallestCoin
             /\ SumSeq(Returned(out')) = change_due - change_due']_vars

\* 33 cents were owed: 25 and 5 are returned, 3 stay owed
C33_Witness ==
    /\ state = "count_change"
    /\ change_due = 3
    /\ Returned(out) = <<25, 5>>

\* C34: the count posted with -COMPLETE- or -STOPPED- is the number of
\* iterations in which connect and send succeeded.
C34_Original ==
    \A n \in 1..Len(client.posted) : client.posted[n][2] = client.sent

\* the final events a ClientThread can post
FinalEvents == {"-COMPLETE-", "-STOPPED-"}

\* C35: a ClientThread.run that has ended has posted exactly one final event,
\* -COMPLETE- or -STOPPED-, and none before it ended; every run ends; and
\* -COMPLETE- is posted only if the iteration counter has reached
\* MAX_ITERATIONS and stop() had not been called when the final test was made.
C35_OneFinalEvent ==
    /\ [](client.pc = "ended" => (/\ Len(client.posted) = 1
                                  /\ client.posted[1][1] \in FinalEvents))
    /\ [](client.pc # "ended" => client.posted = <<>>)
    /\ [][client'.posted # client.posted
             => (client'.posted[1][1] = "-COMPLETE-"
                    => (client.iteration >= MAX_ITERATIONS /\ client.running))]_vars
    /\ <>(client.pc = "ended")

\* stop() was called after the last iteration and before the final test: the
\* one event posted is -STOPPED-
C35_Witness ==
    /\ client.pc = "ended"
    /\ client.iteration = MAX_ITERATIONS
    /\ ~client.running
    /\ client.posted = <<<<"-STOPPED-", MAX_ITERATIONS>>>>

\* the user chose 'change' in the failed dialog and cancelled the IP input
\* dialog, and has made no choice since
ChangeCancelled ==
    /\ connection.choice = "change"
    /\ connection.input # None
    /\ ~connection.input[1]

\* C37: after 'change' and a cancelled IP input dialog the current IP is the
\* one before, and establish_connection makes no connection attempt before the
\* connection-failed dialog has been shown and answered again.
C37_Original ==
    [][/\ (connection.pc = "input" /\ connection'.pc # "input"
              /\ ~connection'.input[1])
          => connection'.current_ip = connection.current_ip
       /\ ChangeCancelled => connection'.attempts = connection.attempts]_vars

\* the ClientThreads that are alive
Alive == (IF is_alive(client) THEN 1 ELSE 0) + client.abandoned

\* C36: at most one ClientThread is alive at any time, across any sequence of
\* Start, Stop (stop, join(timeout=1), reconnect, client_thread = None) and
\* Start again.
C36_Original == Alive <= 1

====
